---- MODULE Spec2Model ----
(***************************************************************************)
(* Model of scripts/process_pdfs.py: the text pipeline                     *)
(*   clean_garbage_text -> re.split -> per-block field extraction ->       *)
(*   format_explanation -> record assembly (parse_forum_ias).              *)
(*                                                                         *)
(* A text is a sequence of fragments (TLA+ strings); the Python string it  *)
(* stands for is the concatenation of its fragments.  Every regular        *)
(* expression of the source is translated into a matcher over fragments    *)
(* that agrees with the regular expression on such concatenations: a       *)
(* fragment is either one character ("a", ")", "\n", ...) or a literal     *)
(* the source's patterns treat as a unit ("Ans", "Subject:)", ...).        *)
(* Match positions are 1-based; a matcher returns the index just after the *)
(* match, or 0 when there is no match at the given start.                  *)
(***************************************************************************)
EXTENDS Integers, Sequences, FiniteSets, TLC

\* raw: the input document; text: the working text; prev: the text before
\* the latest cleaning pass; blocks, idx, questions: the locals of
\* parse_forum_ias; raised: the 0-based positions of the blocks whose
\* assembly raised; pc: the position in the program
VARIABLES raw, text, prev, pc, blocks, idx, questions, raised

vars == <<raw, text, prev, pc, blocks, idx, questions, raised>>

----------------------------------------------------------------------------
(* Fragment classes                                                        *)

NL == "\n"
SP == " "

\* \s
IsWS(t) == t \in {NL, SP}

\* \d
IsDigit(t) == t \in {"1", "2"}

\* [\)\.]
IsClose(t) == t \in {")", "."}

\* [\)\:]
IsTagPunct(t) == t \in {")", ":"}

\* fragments that are exactly one character of [a-dA-D]
IsLetter(t) == t \in {"a", "b", "c", "d", "A", "B", "C", "D"}

\* str.lower() on a one-letter fragment
Lower(t) ==
  CASE t = "A" -> "a" [] t = "B" -> "b" [] t = "C" -> "c" [] t = "D" -> "d"
    [] OTHER -> t

\* (?:Ans|Answer) under re.IGNORECASE
IsAnsWord(t) == t \in {"Ans", "Answer", "ans"}

\* (?:Exp|Explanation) under re.IGNORECASE
IsExpWord(t) == t \in {"Exp", "Explanation", "exp"}

\* first character of a fragment when it is in [a-dA-D], else "" : the
\* answer-tag pattern reads one character, which may open a longer fragment
LeadLetter(t) ==
  CASE IsLetter(t) -> t
    [] t \in {"Ans", "Answer"} -> "A"
    [] t = "ans" -> "a"
    [] OTHER -> ""

----------------------------------------------------------------------------
(* Sequence helpers                                                        *)

Min(S) == CHOOSE x \in S : \A y \in S : x <= y

\* s[i:j] of Python with 1-based inclusive-exclusive bounds
Slice(s, i, j) == IF j <= i THEN <<>> ELSE SubSeq(s, i, j - 1)

\* end of the greedy \s* that starts at i
SkipWS(s, i) ==
  Min({j \in i..(Len(s) + 1) :
         (j = Len(s) + 1 \/ ~IsWS(s[j])) /\ \A k \in i..(j - 1) : IsWS(s[k])})

\* end of the greedy \d* that starts at i
SkipDigits(s, i) ==
  Min({j \in i..(Len(s) + 1) :
         (j = Len(s) + 1 \/ ~IsDigit(s[j])) /\ \A k \in i..(j - 1) : IsDigit(s[k])})

\* end of the greedy .* (no DOTALL) that starts at i: the end of the line
SkipLine(s, i) ==
  Min({j \in i..(Len(s) + 1) :
         (j = Len(s) + 1 \/ s[j] = NL) /\ \A k \in i..(j - 1) : s[k] # NL})

\* str.strip()
Strip(s) ==
  LET keep == {i \in 1..Len(s) : ~IsWS(s[i])}
  IN  IF keep = {} THEN <<>>
      ELSE SubSeq(s, Min(keep), CHOOSE x \in keep : \A y \in keep : y <= x)

RECURSIVE Flatten(_)
Flatten(ss) == IF ss = <<>> THEN <<>> ELSE Head(ss) \o Flatten(Tail(ss))

----------------------------------------------------------------------------
(* clean_garbage_text                                                      *)

SFG == "SFG 2026"

\* Forum\s+Learning\s+Centre\s*: , the opening anchor of footer_pattern
FooterStart == "Forum Learning Centre:"

\* helpdesk@forumias\.academy , the closing anchor of footer_pattern
Helpdesk == "helpdesk@forumias.academy"

garbage_strings ==
  << "9311740400, 9311740900",
     "https://academy.forumias.com",
     "admissions@forumias.academy",
     "helpdesk@forumias.academy",
     "Plot No. 36, 4th Floor",
     "Hyderabad - 1st & 2nd Floor, SM Plaza" >>

\* re.sub(r'(?m)^SFG 2026.*$', '', text): a line that starts with the
\* literal loses everything up to (not including) its line break
RECURSIVE RemoveSFGFrom(_, _)
RemoveSFGFrom(s, i) ==
  IF i > Len(s) THEN <<>>
  ELSE IF s[i] = SFG /\ (i = 1 \/ s[i - 1] = NL)
       THEN RemoveSFGFrom(s, SkipLine(s, i))
       ELSE <<s[i]>> \o RemoveSFGFrom(s, i + 1)

RemoveSFGLines(s) == RemoveSFGFrom(s, 1)

\* re.sub(footer_pattern, '', text, flags=DOTALL|IGNORECASE): from the
\* opening anchor to the first closing anchor after it, across lines
RECURSIVE RemoveFooterFrom(_, _)
RemoveFooterFrom(s, i) ==
  IF i > Len(s) THEN <<>>
  ELSE LET ends == {j \in (i + 1)..Len(s) : s[j] = Helpdesk}
       IN  IF s[i] = FooterStart /\ ends # {}
           THEN RemoveFooterFrom(s, Min(ends) + 1)
           ELSE <<s[i]>> \o RemoveFooterFrom(s, i + 1)

RemoveFooter(s) == RemoveFooterFrom(s, 1)

\* text.replace(junk, '')
Replace(s, junk) == SelectSeq(s, LAMBDA t : t # junk)

\* for junk in garbage_strings: text = text.replace(junk, '')
RECURSIVE RemoveGarbageFrom(_, _)
RemoveGarbageFrom(s, k) ==
  IF k > Len(garbage_strings) THEN s
  ELSE RemoveGarbageFrom(Replace(s, garbage_strings[k]), k + 1)

RemoveGarbage(s) == RemoveGarbageFrom(s, 1)

\* re.sub(r'\n{3,}', '\n\n', text)
RECURSIVE CollapseFrom(_, _)
CollapseFrom(s, i) ==
  IF i > Len(s) THEN <<>>
  ELSE IF s[i] = NL
       THEN LET e == Min({j \in i..(Len(s) + 1) :
                            (j = Len(s) + 1 \/ s[j] # NL)
                            /\ \A k \in i..(j - 1) : s[k] = NL})
            IN  (IF e - i >= 3 THEN <<NL, NL>> ELSE Slice(s, i, e))
                \o CollapseFrom(s, e)
       ELSE <<s[i]>> \o CollapseFrom(s, i + 1)

CollapseNewlines(s) == CollapseFrom(s, 1)

clean_garbage_text(s) ==
  CollapseNewlines(RemoveGarbage(RemoveFooter(RemoveSFGLines(s))))

----------------------------------------------------------------------------
(* Block Segmenter: re.split(r'\nQ\.\s*\d+[\)\.]', text)[1:]               *)

\* \nQ\.\s*\d+[\)\.] at position i
QMarkEnd(s, i) ==
  IF i + 1 <= Len(s) /\ s[i] = NL /\ s[i + 1] = "Q."
  THEN LET j == SkipWS(s, i + 2)
           k == SkipDigits(s, j)
       IN  IF k > j /\ k <= Len(s) /\ IsClose(s[k]) THEN k + 1 ELSE 0
  ELSE 0

\* re.split: the pieces between successive non-overlapping matches
RECURSIVE SplitFrom(_, _, _)
SplitFrom(s, i, cur) ==
  IF i > Len(s) THEN <<cur>>
  ELSE IF QMarkEnd(s, i) # 0
       THEN <<cur>> \o SplitFrom(s, QMarkEnd(s, i), <<>>)
       ELSE SplitFrom(s, i + 1, Append(cur, s[i]))

re_split(s) == SplitFrom(s, 1, <<>>)

\* a variant of segment that keeps the piece before the first marker
segment_KeepFirst(s) == re_split(s)

\* blocks = blocks[1:]  (re.split always returns at least one piece)
segment(s) == Tail(re_split(s))

----------------------------------------------------------------------------
(* Field Extractor: explanation candidate and answer letter                *)

\* the tail "is\s+the\s+correct\s+answer" of the answer sentence
ISCA == "is the correct answer"

\* "Option" under re.IGNORECASE
IsOptionWord(t) == t \in {"Option", "option"}

\* fragments whose text ends with Ans or Answer (case-insensitive): the
\* answer-tag pattern is unanchored, so it also matches at the end of the
\* answer sentence
EndsWithAns(t) == IsAnsWord(t) \/ t = ISCA

\* (?:Exp|Explanation)[\)\:] at position i
ExpTagAt(s, i) == i + 1 <= Len(s) /\ IsExpWord(s[i]) /\ IsTagPunct(s[i + 1])

\* re.search(r'(?:Exp|Explanation)[\)\:]\s*(.*)', block, DOTALL|IGNORECASE)
\* and  explanation = exp_match.group(1).strip() if exp_match else ""
exp_candidate(block) ==
  LET hits == {i \in 1..Len(block) : ExpTagAt(block, i)}
  IN  IF hits = {} THEN <<>>
      ELSE Strip(Slice(block, SkipWS(block, Min(hits) + 2), Len(block) + 1))

\* \s+is\s+the\s+correct\s+answer at position i (just after the letter)
SentTailEnd(s, i) ==
  LET j == SkipWS(s, i)
  IN  IF j > i /\ j <= Len(s) /\ s[j] = ISCA THEN j + 1 ELSE 0

\* (?:Option\s*)?([a-dA-D])\s+is\s+the\s+correct\s+answer at position i:
\* <<end, position of the letter>>, or <<0, 0>>
SentenceAt(s, i) ==
  LET viaOption ==
        IF IsOptionWord(s[i])
        THEN LET j == SkipWS(s, i + 1)
             IN  IF j <= Len(s) /\ IsLetter(s[j]) /\ SentTailEnd(s, j + 1) # 0
                 THEN <<SentTailEnd(s, j + 1), j>> ELSE <<0, 0>>
        ELSE <<0, 0>>
  IN  IF viaOption[1] # 0 THEN viaOption
      ELSE IF IsLetter(s[i]) /\ SentTailEnd(s, i + 1) # 0
           THEN <<SentTailEnd(s, i + 1), i>>
           ELSE <<0, 0>>

\* exp_ans_match: the letter of the leftmost answer sentence, or "" (None)
exp_ans_letter(explanation) ==
  LET hits == {i \in 1..Len(explanation) : SentenceAt(explanation, i)[1] # 0}
  IN  IF hits = {} THEN ""
      ELSE explanation[SentenceAt(explanation, Min(hits))[2]]

\* (?:Ans|Answer)[\)\:]\s*([a-dA-D]) at position i: position of the letter
AnsTagLetterPos(s, i) ==
  IF i + 1 <= Len(s) /\ EndsWithAns(s[i]) /\ IsTagPunct(s[i + 1])
  THEN LET j == SkipWS(s, i + 2)
       IN  IF j <= Len(s) /\ LeadLetter(s[j]) # "" THEN j ELSE 0
  ELSE 0

\* ans_match: the letter of the leftmost answer tag, or "" (None)
ans_tag_letter(block) ==
  LET hits == {i \in 1..Len(block) : AnsTagLetterPos(block, i) # 0}
  IN  IF hits = {} THEN ""
      ELSE LeadLetter(block[AnsTagLetterPos(block, Min(hits))])

\* mapping.get(correct_char, -1)
mapping(ch) ==
  CASE ch = "a" -> 0 [] ch = "b" -> 1 [] ch = "c" -> 2 [] ch = "d" -> 3
    [] OTHER -> -1

\* a variant of correct_idx that asks the answer tag first
correct_idx_TagFirst(block) ==
  LET explanation == exp_candidate(block)
      correct_char ==
        IF ans_tag_letter(block) # ""
        THEN Lower(ans_tag_letter(block))
        ELSE Lower(exp_ans_letter(explanation))
  IN  IF correct_char # "" THEN mapping(correct_char) ELSE -1

\* lines 116-131: the explanation sentence first, the tag as fallback
correct_idx(block) ==
  LET explanation == exp_candidate(block)
      correct_char ==
        IF exp_ans_letter(explanation) # ""
        THEN Lower(exp_ans_letter(explanation))
        ELSE Lower(ans_tag_letter(block))
  IN  IF correct_char # "" THEN mapping(correct_char) ELSE -1

----------------------------------------------------------------------------
(* Field Extractor: explanation cleanup                                    *)

\* end of the greedy [\.\s]* that starts at i
SkipDotsWS(s, i) ==
  Min({j \in i..(Len(s) + 1) :
         (j = Len(s) + 1 \/ ~(IsWS(s[j]) \/ s[j] = "."))
         /\ \A k \in i..(j - 1) : IsWS(s[k]) \/ s[k] = "."})

\* re.sub(r'(?:Option\s*)?[a-dA-D]\s+is\s+the\s+correct\s+answer[\.\s]*', '',
\*        explanation, flags=re.IGNORECASE): one left-to-right pass
RECURSIVE RemoveSentencesFrom(_, _)
RemoveSentencesFrom(s, i) ==
  IF i > Len(s) THEN <<>>
  ELSE IF SentenceAt(s, i)[1] # 0
       THEN RemoveSentencesFrom(s, SkipDotsWS(s, SentenceAt(s, i)[1]))
       ELSE <<s[i]>> \o RemoveSentencesFrom(s, i + 1)

remove_answer_sentence(s) == RemoveSentencesFrom(s, 1)

IsMetaTag(t) == t \in {"Subject:)", "Topic:)", "Source:)"}

\* re.sub(r'(Subject:\)|Topic:\)|Source:\)).*', '', explanation,
\*        flags=re.DOTALL).strip()
truncate_metadata(s) ==
  LET hits == {i \in 1..Len(s) : IsMetaTag(s[i])}
  IN  Strip(IF hits = {} THEN s ELSE Slice(s, 1, Min(hits)))

----------------------------------------------------------------------------
(* format_explanation                                                      *)

BR == "<br>"
BOpen == "<b>"
BClose == "</b>"

keywords ==
  << "Statement I is correct", "Statement II is correct",
     "Statement 1 is correct", "Statement 2 is correct",
     "Statement I is incorrect", "Statement II is incorrect",
     "Statement 1 is incorrect", "Statement 2 is incorrect",
     "Hence option .*? is correct", "Thus,", "Therefore," >>

\* fragments whose text ends with " is correct"
EndsIsCorrect(t) ==
  t \in {"Statement I is correct", "Statement II is correct",
         "Statement 1 is correct", "Statement 2 is correct"}

\* (?i)(Hence option .*? is correct) at position i: "Hence option " then the
\* shortest run without a line break that ends with " is correct"
HenceEnd(s, i) ==
  IF i + 3 <= Len(s) /\ s[i] \in {"Hence", "hence"} /\ s[i + 1] = SP
     /\ IsOptionWord(s[i + 2]) /\ s[i + 3] = SP
  THEN LET ends == {e \in (i + 4)..Len(s) :
                      /\ \A k \in (i + 4)..e : s[k] # NL
                      /\ \/ EndsIsCorrect(s[e])
                         \/ s[e] = "is correct" /\ e - 1 >= i + 4 /\ s[e - 1] = SP}
       IN  IF ends = {} THEN 0 ELSE Min(ends) + 1
  ELSE 0

\* the pattern (?i)(kw) at position i
KeywordEnd(kw, s, i) ==
  IF kw = "Hence option .*? is correct" THEN HenceEnd(s, i)
  ELSE IF s[i] = kw THEN i + 1 ELSE 0

\* re.sub(f"(?i)({kw})", r'<br><br><b>\1</b>', text)
RECURSIVE WrapKeywordFrom(_, _, _)
WrapKeywordFrom(kw, s, i) ==
  IF i > Len(s) THEN <<>>
  ELSE IF KeywordEnd(kw, s, i) # 0
       THEN <<BR, BR, BOpen>> \o Slice(s, i, KeywordEnd(kw, s, i)) \o <<BClose>>
            \o WrapKeywordFrom(kw, s, KeywordEnd(kw, s, i))
       ELSE <<s[i]>> \o WrapKeywordFrom(kw, s, i + 1)

\* for kw in keywords: ...
RECURSIVE WrapKeywords(_, _)
WrapKeywords(s, k) ==
  IF k > Len(keywords) THEN s
  ELSE WrapKeywords(WrapKeywordFrom(keywords[k], s, 1), k + 1)

\* \n\s*(\d+\.)\s+ at position i: <<start of digits, position of the dot, end>>
NumberedAt(s, i) ==
  IF s[i] = NL
  THEN LET j == SkipWS(s, i + 1)
           k == SkipDigits(s, j)
       IN  IF k > j /\ k <= Len(s) /\ s[k] = "." /\ SkipWS(s, k + 1) > k + 1
           THEN <<j, k, SkipWS(s, k + 1)>> ELSE <<0, 0, 0>>
  ELSE <<0, 0, 0>>

\* re.sub(r'\n\s*(\d+\.)\s+', r'<br><b>\1</b> ', text)
RECURSIVE NumberedFrom(_, _)
NumberedFrom(s, i) ==
  IF i > Len(s) THEN <<>>
  ELSE LET m == NumberedAt(s, i)
       IN  IF m[3] # 0
           THEN <<BR, BOpen>> \o Slice(s, m[1], m[2] + 1) \o <<BClose, SP>>
                \o NumberedFrom(s, m[3])
           ELSE <<s[i]>> \o NumberedFrom(s, i + 1)

\* text.replace('<br><br><br>', '<br><br>')
RECURSIVE CollapseBreaksFrom(_, _)
CollapseBreaksFrom(s, i) ==
  IF i > Len(s) THEN <<>>
  ELSE IF i + 2 <= Len(s) /\ s[i] = BR /\ s[i + 1] = BR /\ s[i + 2] = BR
       THEN <<BR, BR>> \o CollapseBreaksFrom(s, i + 3)
       ELSE <<s[i]>> \o CollapseBreaksFrom(s, i + 1)

format_explanation(s) ==
  IF s = <<>> THEN <<"No explanation provided.">>
  ELSE Strip(CollapseBreaksFrom(NumberedFrom(WrapKeywords(s, 1), 1), 1))

\* lines 112-141: the explanation field of the record
explanation_of(block) ==
  format_explanation(truncate_metadata(remove_answer_sentence(exp_candidate(block))))

----------------------------------------------------------------------------
(* Field Extractor: metadata                                               *)

\* m = re.search(tag + r'\s*(.*)', block);  m.group(1).strip() if m else default
meta_field(block, tag, default) ==
  LET hits == {i \in 1..Len(block) : block[i] = tag}
  IN  IF hits = {} THEN default
      ELSE LET j == SkipWS(block, Min(hits) + 1)
           IN  Strip(Slice(block, j, SkipLine(block, j)))

subject_of(block) == meta_field(block, "Subject:)", <<"General">>)

topic_of(block) == meta_field(block, "Topic:)", <<"GS">>)

----------------------------------------------------------------------------
(* Field Extractor: question stem and options                              *)

ErrorText == <<"Error parsing question text.">>
ParseError == <<"Parse Error">>
Pad == <<"-">>

\* \n\s*a[\)\.] at position i
OptStartAt(s, i) ==
  /\ s[i] = NL
  /\ LET j == SkipWS(s, i + 1)
     IN  j + 1 <= Len(s) /\ s[j] = "a" /\ IsClose(s[j + 1])

\* opt_start.start(), or 0 when re.search finds nothing
opt_start(block) ==
  LET hits == {i \in 1..Len(block) : OptStartAt(block, i)}
  IN  IF hits = {} THEN 0 ELSE Min(hits)

\* fragments whose text starts with Ans or Exp (case-insensitive)
StartsAnsExp(t) == IsAnsWord(t) \/ IsExpWord(t)

\* \n\s*(?:Ans|Exp) at position i
TagLineAt(s, i) ==
  /\ s[i] = NL
  /\ LET j == SkipWS(s, i + 1) IN j <= Len(s) /\ StartsAnsExp(s[j])

\* end_of_opts: the first tag line at or after the option start, else len(block)
end_of_opts(block) ==
  LET hits == {i \in opt_start(block)..Len(block) : TagLineAt(block, i)}
  IN  IF hits = {} THEN Len(block) + 1 ELSE Min(hits)

\* opts_block = block[opt_start.start():end_of_opts]
opts_block(block) == Slice(block, opt_start(block), end_of_opts(block))

\* (?:^|\n)\s*([a-dA-D])[\)\.] at position i: the end of the match, or 0
OptLabelEnd(s, i) ==
  IF i = 1 \/ s[i] = NL
  THEN LET j == SkipWS(s, IF s[i] = NL THEN i + 1 ELSE i)
       IN  IF j + 1 <= Len(s) /\ IsLetter(s[j]) /\ IsClose(s[j + 1])
           THEN j + 2 ELSE 0
  ELSE 0

\* the start of the next label match at or after i, or len + 1
NextLabel(s, i) ==
  LET hits == {k \in i..Len(s) : OptLabelEnd(s, k) # 0}
  IN  IF hits = {} THEN Len(s) + 1 ELSE Min(hits)

\* lines 167-171: one option per label match, cut at the next match
RECURSIVE OptionsFrom(_, _)
OptionsFrom(s, i) ==
  LET m == NextLabel(s, i)
  IN  IF m > Len(s) THEN <<>>
      ELSE LET start == OptLabelEnd(s, m)
               end == NextLabel(s, start)
           IN  <<Strip(Slice(s, start, end))>> \o OptionsFrom(s, start)

\* while len(options) < 4: options.append("-")
RECURSIVE pad_options(_)
pad_options(options) ==
  IF Len(options) < 4 THEN pad_options(Append(options, Pad)) ELSE options

\* a variant of options_of without the error placeholders
options_of_NoSentinel(block) ==
  pad_options(IF opt_start(block) # 0
              THEN OptionsFrom(opts_block(block), 1)
              ELSE <<>>)

\* lines 152-177
options_of(block) ==
  pad_options(IF opt_start(block) # 0
              THEN OptionsFrom(opts_block(block), 1)
              ELSE <<ParseError, ParseError, ParseError, ParseError>>)

q_text_of(block) ==
  IF opt_start(block) # 0
  THEN Strip(Slice(block, 1, opt_start(block)))
  ELSE ErrorText

----------------------------------------------------------------------------
(* Record Assembler                                                        *)

\* lines 179-187, for the stripped block at 0-based position i
q_obj(i, block) ==
  [ id            |-> i + 1,
    text          |-> q_text_of(block),
    options       |-> options_of(block),
    correctAnswer |-> correct_idx(block),
    explanation   |-> explanation_of(block),
    subject       |-> subject_of(block),
    topic         |-> topic_of(block) ]

----------------------------------------------------------------------------
(* Input documents                                                         *)

MaxChunks == 4
MaxOptLines == 5
MaxTailLines == 3
MaxSentParts == 4
MaxNoise == 4

\* all sequences of at most n pieces of P, each flattened to one text
TextsOf(P, n) == {Flatten(ps) : ps \in UNION {[1..k -> P] : k \in 0..n}}

QHead == <<NL, "Q.", "1", ")", SP, "w">>

\* documents of several blocks: markers, near-markers, blank and filled blocks
SegChunks ==
  { <<NL, "Q.", "1", ")", "w">>, <<NL, "Q.", SP, "1", "2", ".">>, <<NL, "Q.", ")">>,
    <<"Q.", "1", ")">>, <<NL>>, <<SP, "w">>, <<NL, "SFG 2026", "w">> }

SegDocs == TextsOf(SegChunks, MaxChunks)

\* one block: a stem, option lines, then a tag line
OptLines ==
  { <<NL, "a", ")", SP, "w">>, <<NL, SP, "B", ".", "w", SP>>,
    <<NL, "c", ")", "w", SP, "Ans", ")", SP, "a">>, <<NL, "Exp", SP, "w">> }

OptTails == { <<>>, <<NL, "Ans", ")", SP, "b">> }

OptDocs ==
  {QHead \o body \o tail : body \in TextsOf(OptLines, MaxOptLines), tail \in OptTails}

\* one block: tags, answer sentences, metadata, explanation prose
TailLines ==
  { <<NL, "Ans", ")", SP, "b">>, <<NL, "Answer", ":", "C">>,
    <<NL, "ans", ":", SP, "w">>, <<NL, "Exp", ")", SP, "w">>,
    <<SP, "Option", SP, "a", SP, ISCA, ".">>, <<SP, "d", SP, ISCA>>,
    <<NL, "Subject:)">>, <<NL, "Topic:)", SP, "w", SP>>,
    <<NL, "a", ")", "w">>, <<SP, "Thus,", SP, "w">> }

TailDocs == {QHead \o body : body \in TextsOf(TailLines, MaxTailLines)}

\* one block whose explanation is built from parts of answer sentences and
\* of formatter keywords
SentParts ==
  { <<"c", SP>>, <<ISCA, ".", SP>>, <<"w">>,
    <<"Hence", SP, "option", SP>>, <<"Statement I is correct">>,
    <<NL, "1", ".", SP>> }

SentDocs ==
  {QHead \o <<NL, "Exp", ")", SP>> \o body : body \in TextsOf(SentParts, MaxSentParts)}

Documents == SegDocs \cup OptDocs \cup TailDocs \cup SentDocs

\* texts of boilerplate fragments for the Noise Stripper alone
NoiseTokens ==
  { NL, "w", SFG, FooterStart, Helpdesk, "9311740400, 9311740900" }

NoiseDocs == UNION {[1..k -> NoiseTokens] : k \in 0..MaxNoise}

----------------------------------------------------------------------------
(* parse_forum_ias as a state machine                                      *)

Init ==
  /\ raw \in Documents
  /\ text = raw
  /\ prev = raw
  /\ pc = "start"
  /\ blocks = <<>>
  /\ idx = 0
  /\ questions = <<>>
  /\ raised = {}

\* lines 94-103: clean the text, split it, drop the first piece
Segment ==
  /\ pc = "start"
  /\ text' = clean_garbage_text(text)
  /\ prev' = text
  /\ blocks' = segment(text')
  /\ idx' = 0
  /\ pc' = "loop"
  /\ UNCHANGED <<raw, questions, raised>>

\* lines 107-108: a block that is blank after strip() is skipped
SkipBlank ==
  /\ pc = "loop"
  /\ idx < Len(blocks)
  /\ Strip(blocks[idx + 1]) = <<>>
  /\ idx' = idx + 1
  /\ UNCHANGED <<raw, text, prev, pc, blocks, questions, raised>>

\* lines 107-188: the record of a non-blank block is appended
Assemble ==
  /\ pc = "loop"
  /\ idx < Len(blocks)
  /\ Strip(blocks[idx + 1]) # <<>>
  /\ questions' = Append(questions, q_obj(idx, Strip(blocks[idx + 1])))
  /\ idx' = idx + 1
  /\ UNCHANGED <<raw, text, prev, pc, blocks, raised>>

\* a variant of RaiseInBlock in which the exception ends the loop
RaiseInBlock_Abort ==
  /\ pc = "loop"
  /\ idx < Len(blocks)
  /\ raised' = raised \cup {idx}
  /\ pc' = "done"
  /\ UNCHANGED <<raw, text, prev, blocks, idx, questions>>

\* lines 106, 190-191: an exception raised inside the try body is caught;
\* nothing was appended (the append is the last statement of the body) and
\* the loop goes on with the next block
RaiseInBlock ==
  /\ pc = "loop"
  /\ idx < Len(blocks)
  /\ raised' = raised \cup {idx}
  /\ idx' = idx + 1
  /\ UNCHANGED <<raw, text, prev, pc, blocks, questions>>

\* line 193
Return ==
  /\ pc = "loop"
  /\ idx = Len(blocks)
  /\ pc' = "done"
  /\ UNCHANGED <<raw, text, prev, blocks, idx, questions, raised>>

Next == Segment \/ SkipBlank \/ Assemble \/ Return

Spec == Init /\ [][Next]_vars

\* the same program with exceptions inside the try body, on the documents
\* of several blocks
InitFault ==
  /\ raw \in SegDocs
  /\ text = raw
  /\ prev = raw
  /\ pc = "start"
  /\ blocks = <<>>
  /\ idx = 0
  /\ questions = <<>>
  /\ raised = {}

NextFault == Segment \/ SkipBlank \/ Assemble \/ RaiseInBlock \/ Return

SpecFault == InitFault /\ [][NextFault]_vars

\* clean_garbage_text applied once and then once more to its own result
InitClean ==
  /\ raw \in NoiseDocs
  /\ text = raw
  /\ prev = raw
  /\ pc = "clean0"
  /\ blocks = <<>>
  /\ idx = 0
  /\ questions = <<>>
  /\ raised = {}

CleanPass ==
  /\ pc \in {"clean0", "clean1"}
  /\ text' = clean_garbage_text(text)
  /\ prev' = text
  /\ pc' = IF pc = "clean0" THEN "clean1" ELSE "clean2"
  /\ UNCHANGED <<raw, blocks, idx, questions, raised>>

NextClean == CleanPass

SpecClean == InitClean /\ [][NextClean]_vars

----------------------------------------------------------------------------
(* Vocabulary of the properties                                            *)

\* the stripped block a record was assembled from (its id is idx + 1)
BlockOf(q) == Strip(blocks[q.id])

Records == {questions[k] : k \in 1..Len(questions)}

\* positions where a question-start marker begins: newline, "Q.", optional
\* whitespace, one or more digits, then ")" or "."
MarkerEndsAt(s, i, e) ==
  /\ i + 1 <= Len(s) /\ s[i] = NL /\ s[i + 1] = "Q."
  /\ e - 1 <= Len(s) /\ IsClose(s[e - 1])
  /\ \E j \in (i + 2)..(e - 2) :
       /\ \A k \in (i + 2)..(j - 1) : IsWS(s[k])
       /\ \A k \in j..(e - 2) : IsDigit(s[k])

Markers(s) == {i \in 1..Len(s) : \E e \in (i + 3)..(Len(s) + 1) : MarkerEndsAt(s, i, e)}

MarkerEnd(s, i) == CHOOSE e \in (i + 3)..(Len(s) + 1) : MarkerEndsAt(s, i, e)

\* the k-th smallest element of a set of positions
RECURSIVE Nth(_, _)
Nth(S, k) == IF k = 1 THEN Min(S) ELSE Nth(S \ {Min(S)}, k - 1)

\* a block holds an option-start marker: newline, optional whitespace, "a",
\* then ")" or "."
HasOptMarker(b) ==
  \E i \in 1..Len(b) : \E j \in (i + 1)..(Len(b) - 1) :
    /\ b[i] = NL /\ b[j] = "a" /\ IsClose(b[j + 1])
    /\ \A k \in (i + 1)..(j - 1) : IsWS(b[k])

\* positions of the letters of the answer sentences of a text
SentenceLetters(s) ==
  {p \in 1..Len(s) :
     /\ IsLetter(s[p])
     /\ \E j \in (p + 2)..Len(s) :
          s[j] = ISCA /\ \A k \in (p + 1)..(j - 1) : IsWS(s[k])}

\* positions of the letters named by the Ans/Answer tags of a text
TagLetters(s) ==
  {p \in 1..Len(s) :
     /\ LeadLetter(s[p]) # ""
     /\ \E i \in 1..(p - 2) :
          /\ EndsWithAns(s[i]) /\ IsTagPunct(s[i + 1])
          /\ \A k \in (i + 2)..(p - 1) : IsWS(s[k])}

\* a -> 0, b -> 1, c -> 2, d -> 3, either case
LetterIndex(ch) ==
  CASE ch \in {"a", "A"} -> 0 [] ch \in {"b", "B"} -> 1
    [] ch \in {"c", "C"} -> 2 [] ch \in {"d", "D"} -> 3

\* an introducer tag: Ans, Answer, Exp or Explanation followed by ")" or ":"
IntroTags(s) ==
  {i \in 1..(Len(s) - 1) : (IsAnsWord(s[i]) \/ IsExpWord(s[i])) /\ IsTagPunct(s[i + 1])}

\* the rest of the line after position i, trimmed
RestOfLine(s, i) ==
  LET nls == {j \in (i + 1)..Len(s) : s[j] = NL}
  IN  Strip(Slice(s, i + 1, IF nls = {} THEN Len(s) + 1 ELSE Min(nls)))

FirstIndexOf(s, t) == Min({i \in 1..Len(s) : s[i] = t})

----------------------------------------------------------------------------
(* C1 .. C10                                                               *)

\* C1: every record has exactly 4 options, whatever the number of option
\* markers in its block's option region
C1_OptionsExactlyFour == \A q \in Records : Len(q.options) = 4

\* C2: the id of the k-th emitted record is k
C2_IdsArePositions == \A k \in 1..Len(questions) : questions[k].id = k

\* C3: a block whose assembly raised leaves no record, the loop goes on to
\* the last block, and every other non-blank block processed so far has
\* exactly one record, the records being in the order of their blocks
C3_FailureIsolation ==
  /\ \A k \in 1..Len(questions) :
       /\ questions[k].id - 1 \in 0..(idx - 1)
       /\ questions[k].id - 1 \notin raised
       /\ questions[k] = q_obj(questions[k].id - 1, BlockOf(questions[k]))
  /\ \A i \in 0..(idx - 1) :
       (i \notin raised /\ Strip(blocks[i + 1]) # <<>>)
         => Cardinality({k \in 1..Len(questions) : questions[k].id = i + 1}) = 1
  /\ \A k \in 1..(Len(questions) - 1) : questions[k].id < questions[k + 1].id
  /\ pc = "done" => idx = Len(blocks)

\* C3 witness: the run is over, a block raised, and blocks before and after
\* it have their records
C3_Witness ==
  /\ pc = "done"
  /\ \E i \in raised : \E q1 \in Records : \E q2 \in Records :
       q1.id < i + 1 /\ i + 1 < q2.id

\* C4: the answer sentence of the explanation candidate decides
\* correctAnswer; without one the first answer tag of the block does;
\* without either it is -1; it is always in {-1, 0, 1, 2, 3}
C4_AnswerDispatch ==
  \A q \in Records :
    LET b == BlockOf(q)
        e == exp_candidate(b)
    IN  /\ q.correctAnswer \in {-1, 0, 1, 2, 3}
        /\ q.correctAnswer =
             IF SentenceLetters(e) # {}
             THEN LetterIndex(e[Min(SentenceLetters(e))])
             ELSE IF TagLetters(b) # {}
                  THEN LetterIndex(LeadLetter(b[Min(TagLetters(b))]))
                  ELSE -1

\* C4 witness: a record whose explanation sentence and answer tag name
\* different letters
C4_Witness ==
  \E q \in Records :
    LET b == BlockOf(q)
        e == exp_candidate(b)
    IN  /\ SentenceLetters(e) # {} /\ TagLetters(b) # {}
        /\ LetterIndex(e[Min(SentenceLetters(e))])
             # LetterIndex(LeadLetter(b[Min(TagLetters(b))]))

\* C5: N question-start markers in the cleaned text give exactly N blocks,
\* the k-th block being the text between the k-th marker and the next one
\* (so the text before the first marker is in no block); with no marker
\* there is no block and parse_forum_ias returns the empty list
C5_SegmentationCount ==
  pc # "start" =>
    LET M == Markers(text)
    IN  /\ Len(blocks) = Cardinality(M)
        /\ \A k \in 1..Len(blocks) :
             blocks[k] = Slice(text, MarkerEnd(text, Nth(M, k)),
                               IF k < Cardinality(M) THEN Nth(M, k + 1)
                               ELSE Len(text) + 1)
        /\ (M = {} /\ pc = "done") => questions = <<>>

\* C5 witness: two or more markers after a non-empty preamble
C5_Witness ==
  /\ pc = "done"
  /\ Len(blocks) >= 2
  /\ Markers(text) # {} /\ Min(Markers(text)) > 1

\* C6: cleaning an already cleaned text changes nothing
C6_CleanIdempotent == pc = "clean2" => text = prev

\* C7: a non-blank block without option-start marker still has its record,
\* with the error sentinel as text and four error placeholders as options;
\* the other fields are what the Ans/Exp/metadata searches give
C7_DegradedRecord ==
  \A i \in 0..(idx - 1) :
    LET b == Strip(blocks[i + 1])
    IN  (b # <<>> /\ ~HasOptMarker(b)) =>
          \E k \in 1..Len(questions) :
            /\ questions[k].id = i + 1
            /\ questions[k].text = <<"Error parsing question text.">>
            /\ questions[k].options =
                 << <<"Parse Error">>, <<"Parse Error">>,
                    <<"Parse Error">>, <<"Parse Error">> >>
            /\ questions[k].correctAnswer = correct_idx(b)
            /\ questions[k].explanation = explanation_of(b)
            /\ questions[k].subject = subject_of(b)
            /\ questions[k].topic = topic_of(b)

\* C7 witness: a degraded record whose answer was still found
C7_Witness ==
  \E q \in Records :
    /\ ~HasOptMarker(BlockOf(q))
    /\ q.text = <<"Error parsing question text.">>
    /\ q.correctAnswer >= 0

\* C8: subject (topic) is the trimmed rest of the line of the first
\* "Subject:)" ("Topic:)") tag, and "General" ("GS") without the tag
C8_MetadataSameLine ==
  \A q \in Records :
    LET b == BlockOf(q)
    IN  /\ q.subject = IF \E i \in 1..Len(b) : b[i] = "Subject:)"
                       THEN RestOfLine(b, FirstIndexOf(b, "Subject:)"))
                       ELSE <<"General">>
        /\ q.topic = IF \E i \in 1..Len(b) : b[i] = "Topic:)"
                     THEN RestOfLine(b, FirstIndexOf(b, "Topic:)"))
                     ELSE <<"GS">>

\* C9: when the explanation candidate holds an answer sentence, the
\* explanation of the record holds none
C9_SentenceAbsent ==
  \A q \in Records :
    SentenceLetters(exp_candidate(BlockOf(q))) # {}
      => SentenceLetters(q.explanation) = {}

\* C10: the option region ends at the first introducer tag after the
\* option-start marker (or at the end of the block), so the options are
\* those of that region, in order, and none holds an introducer tag
C10_OptionRegion ==
  \A q \in Records :
    LET b == BlockOf(q)
        tags == {i \in IntroTags(b) : i > opt_start(b)}
        region == Slice(b, opt_start(b), IF tags = {} THEN Len(b) + 1 ELSE Min(tags))
    IN  HasOptMarker(b) =>
          /\ q.options = pad_options(OptionsFrom(region, 1))
          /\ \A k \in 1..Len(q.options) : IntroTags(q.options[k]) = {}

====
